---- MODULE Spec2Model ----
(***************************************************************************)
(* A model of jinja2/runtime.py: the render Context (resolve, super), the  *)
(* LoopContext with its iterator, the Macro calling convention and the     *)
(* Undefined / DebugUndefined / StrictUndefined types.                     *)
(*                                                                         *)
(* Python values are records [type, fmt, args]: `type` is the name of the  *)
(* value's class, and fmt % args is its text, so that a formatted message  *)
(* keeps the values it was built from.  A call ends in Return(value) or in *)
(* Raise(exc, msg).                                                        *)
(***************************************************************************)
EXTENDS Integers, Sequences, FiniteSets, TLC

VARIABLES ctx, out, und, macro, loop, call, ret

vars == <<ctx, out, und, macro, loop, call, ret>>

-----------------------------------------------------------------------------
(* Python values and outcomes *)

Str(s) == [type |-> "str", fmt |-> s, args |-> <<>>]

Format(f, a) == [type |-> "str", fmt |-> f, args |-> a]

None == [type |-> "NoneType", fmt |-> "None", args |-> <<>>]

PyInt(s) == [type |-> "int", fmt |-> s, args |-> <<>>]

Obj(t) == [type |-> t, fmt |-> "<object>", args |-> <<>>]

Return(v) == [kind |-> "return", value |-> v]

Raise(e, m) == [kind |-> "raise", exc |-> e, msg |-> m]

NoCall == [op |-> "none"]

NoRet == [kind |-> "none"]

Unused == [kind |-> "unused"]

\* isinstance(v, basestring)
IsBaseString(v) == v.type \in {"str", "unicode"}

\* the exception classes that `except LookupError` catches
IsLookupError(e) == e \in {"LookupError", "KeyError", "IndexError"}

UndefinedClasses == {"Undefined", "DebugUndefined", "StrictUndefined"}

\* isinstance(v, Undefined)
IsUndefined(v) == v.type \in UndefinedClasses

\* Undefined.__init__(hint, obj, name, exc)
UndefinedInit(cls, hint, obj, name, exc) ==
    [type |-> cls, hint |-> hint, obj |-> obj, name |-> name, exc |-> exc]

\* environment.undefined(hint, obj, name): the configured undefined class
EnvUndefined(env, hint, obj, name) ==
    UndefinedInit(env.undefined, hint, obj, name, "UndefinedError")

-----------------------------------------------------------------------------
(* Context *)

Keys == {"a", "b"}

Values == {Str("v1"), Str("v2")}

Layers == {"L1", "L2", "L3"}

BlockNames == {"body"}

LookupNames == {"body", "other"}

MaxLayers == 2

\* a dict: a function from a finite set of keys
Dicts(K, V) == UNION {[D -> V] : D \in SUBSET K}

EmptyDict == [k \in {} |-> None]

DictSet(d, k, v) == [x \in DOMAIN d \cup {k} |-> IF x = k THEN v ELSE d[x]]

DictDel(d, k) == [x \in DOMAIN d \ {k} |-> d[x]]

\* list.index(x): the 0-based position of the first x, ValueError without one
ListIndex(l, x) ==
    IF \E i \in 1..Len(l) : l[i] = x
    THEN Return((CHOOSE i \in 1..Len(l) :
                    l[i] = x /\ \A j \in 1..(i - 1) : l[j] # x) - 1)
    ELSE Raise("ValueError", Str("x not in list"))

\* seq[i] with Python's 0-based and negative indices, IndexError outside
GetItem(l, i) ==
    IF 0 <= i /\ i < Len(l) THEN Return(l[i + 1])
    ELSE IF i < 0 /\ -i <= Len(l) THEN Return(l[Len(l) + i + 1])
    ELSE Raise("IndexError", Str("index out of range"))

\* dict[k], KeyError without the key
DictGetItem(d, k) ==
    IF k \in DOMAIN d THEN Return(d[k]) ELSE Raise("KeyError", Str(k))

\* Context.__init__(environment, parent, name, blocks)
ContextInit(environment, parent, blocks) ==
    [parent |-> parent,
     vars |-> EmptyDict,
     environment |-> environment,
     blocks |-> [k \in DOMAIN blocks |-> <<blocks[k]>>]]

\* the try block of Context.super: blocks[name], then the layer after current
SuperLookup(self, name, current) ==
    LET blocks == DictGetItem(self.blocks, name) IN
    IF blocks.kind = "raise" THEN blocks
    ELSE LET idx == ListIndex(blocks.value, current) IN
         IF idx.kind = "raise" THEN idx
         ELSE GetItem(blocks.value, idx.value + 1)

CaughtBySuper(e) == IsLookupError(e)

\* Context.super(name, current)
super(self, name, current) ==
    LET block == SuperLookup(self, name, current) IN
    IF block.kind = "raise"
    THEN IF CaughtBySuper(block.exc)
         THEN Return(EnvUndefined(self.environment,
                        Format("there is no parent block called %r.", <<Str(name)>>),
                        None, Str("super")))
         ELSE block
    ELSE Return([type |-> "function", name |-> name, block |-> block.value])

\* the render lambda of Context.super: wrap(concat(block(self)))
Render(self, render) ==
    [markup |-> self.environment.autoescape, rendered |-> <<render.block>>]

\* resolve with the two lookups swapped: parent shadows the local names
resolve_parent_first(self, key) ==
    IF key \in DOMAIN self.parent THEN Return(self.parent[key])
    ELSE IF key \in DOMAIN self.vars THEN Return(self.vars[key])
    ELSE Return(EnvUndefined(self.environment, None, None, Str(key)))

\* Context.resolve(key)
resolve(self, key) ==
    IF key \in DOMAIN self.vars THEN Return(self.vars[key])
    ELSE IF key \in DOMAIN self.parent THEN Return(self.parent[key])
    ELSE Return(EnvUndefined(self.environment, None, None, Str(key)))

\* Context.__getitem__(key)
getitem(self, key) ==
    LET item == resolve(self, key) IN
    IF item.kind = "return" /\ IsUndefined(item.value)
    THEN Raise("KeyError", Str(key))
    ELSE item

\* Context.get(key, default)
get(self, key, default) ==
    LET item == getitem(self, key) IN
    IF item.kind = "raise" /\ item.exc = "KeyError" THEN Return(default) ELSE item

Environments == [undefined : {"Undefined"}, autoescape : BOOLEAN]

CtxInit ==
    /\ \E env \in Environments, parent \in Dicts(Keys, Values),
          blocks \in Dicts(BlockNames, Layers) :
          ctx = ContextInit(env, parent, blocks)
    /\ out = Unused
    /\ und = Unused /\ macro = Unused /\ loop = Unused
    /\ call = NoCall /\ ret = NoRet

\* generated template code binds a local name: context.vars[key] = value
StoreVar ==
    /\ \E k \in Keys, v \in Values :
          ctx' = [ctx EXCEPT !.vars = DictSet(ctx.vars, k, v)]
    /\ call' = NoCall /\ ret' = NoRet /\ out' = Unused
    /\ UNCHANGED <<und, macro, loop>>

\* template inheritance registers one more layer of a block
AddLayer ==
    /\ \E n \in BlockNames, l \in Layers :
          LET old == IF n \in DOMAIN ctx.blocks THEN ctx.blocks[n] ELSE <<>> IN
          /\ Len(old) < MaxLayers
          /\ \A i \in 1..Len(old) : old[i] # l
          /\ ctx' = [ctx EXCEPT !.blocks = DictSet(ctx.blocks, n, <<l>> \o old)]
    /\ call' = NoCall /\ ret' = NoRet /\ out' = Unused
    /\ UNCHANGED <<und, macro, loop>>

Resolve ==
    /\ \E k \in Keys :
          /\ call' = [op |-> "resolve", key |-> k]
          /\ ret' = resolve(ctx, k)
    /\ out' = Unused
    /\ UNCHANGED <<ctx, und, macro, loop>>

Get ==
    /\ \E k \in Keys :
          /\ call' = [op |-> "get", key |-> k]
          /\ ret' = get(ctx, k, None)
    /\ out' = Unused
    /\ UNCHANGED <<ctx, und, macro, loop>>

Super ==
    /\ \E n \in LookupNames, l \in Layers :
          /\ call' = [op |-> "super", name |-> n, current |-> l]
          /\ ret' = super(ctx, n, l)
    /\ out' = Unused
    /\ UNCHANGED <<ctx, und, macro, loop>>

\* the renderer that the last super() returned is called
CallRender ==
    /\ call.op = "super" /\ ret.kind = "return" /\ ret.value.type = "function"
    /\ out' = Render(ctx, ret.value)
    /\ UNCHANGED <<ctx, und, macro, loop, call, ret>>

CtxNext == StoreVar \/ AddLayer \/ Resolve \/ Get \/ Super \/ CallRender

SpecContext == CtxInit /\ [][CtxNext]_vars

\* C1: after resolve(key) the call has returned (never raised): the value
\* bound in vars when key is in vars, even when parent defines key as well;
\* otherwise the value in parent when key is in parent; otherwise an undefined
\* value whose name is key.
C1_Resolve ==
    call.op = "resolve" =>
        /\ ret.kind = "return"
        /\ call.key \in DOMAIN ctx.vars => ret.value = ctx.vars[call.key]
        /\ (call.key \notin DOMAIN ctx.vars /\ call.key \in DOMAIN ctx.parent)
              => ret.value = ctx.parent[call.key]
        /\ (call.key \notin DOMAIN ctx.vars /\ call.key \notin DOMAIN ctx.parent)
              => IsUndefined(ret.value) /\ ret.value.name = Str(call.key)

\* a resolve of a key that vars and parent bind to different values
C1_Witness ==
    /\ call.op = "resolve"
    /\ call.key \in DOMAIN ctx.vars /\ call.key \in DOMAIN ctx.parent
    /\ ctx.vars[call.key] # ctx.parent[call.key]
    /\ ret = Return(ctx.vars[call.key])

\* the layers of a block name, none when the name is not registered
LayersOf(name) == IF name \in DOMAIN ctx.blocks THEN ctx.blocks[name] ELSE <<>>

\* the position of a layer among the layers of name, 0 when it is not one
PositionOf(name, layer) ==
    IF \E i \in 1..Len(LayersOf(name)) : LayersOf(name)[i] = layer
    THEN CHOOSE i \in 1..Len(LayersOf(name)) : LayersOf(name)[i] = layer
    ELSE 0

HasNextLayer(name, layer) ==
    PositionOf(name, layer) > 0 /\ PositionOf(name, layer) < Len(LayersOf(name))

\* C2: super(name, current) never raises; with a next layer after current in
\* blocks[name] it returns a renderer that renders exactly that layer, and in
\* every other case (no layers for name, current is the last layer, current
\* is not a layer of name) it returns an undefined value.
C2_Super ==
    call.op = "super" =>
        /\ ret.kind = "return"
        /\ HasNextLayer(call.name, call.current) =>
              /\ ret.value.type = "function"
              /\ ret.value.block =
                    LayersOf(call.name)[PositionOf(call.name, call.current) + 1]
              /\ out # Unused => out.rendered = <<ret.value.block>>
        /\ ~HasNextLayer(call.name, call.current) => IsUndefined(ret.value)

-----------------------------------------------------------------------------
(* Undefined, DebugUndefined, StrictUndefined *)

Unicode(s) == [type |-> "unicode", fmt |-> s, args |-> <<>>]

Bool(b) == [type |-> "bool", fmt |-> IF b THEN "True" ELSE "False", args |-> <<>>]

\* an iterator that yields the given items
Generator(items) == [type |-> "generator", fmt |-> "<generator>", args |-> items]

\* the message selection with the test of the key ahead of the test of the
\* owning object
fail_key_first(self) ==
    LET hint ==
          IF self.hint = None
          THEN IF ~IsBaseString(self.name)
               THEN Format("%r object has no element %r",
                           <<Str(self.obj.type), self.name>>)
               ELSE IF self.obj = None
               THEN Format("%r is undefined", <<self.name>>)
               ELSE Format("%r object has no attribute %r",
                           <<Str(self.obj.type), self.name>>)
          ELSE self.hint
    IN Raise(self.exc, hint)

\* fail_with_undefined_error(self, *args, **kwargs)
fail_with_undefined_error(self) ==
    LET hint ==
          IF self.hint = None
          THEN IF self.obj = None
               THEN Format("%r is undefined", <<self.name>>)
               ELSE IF ~IsBaseString(self.name)
               THEN Format("%r object has no element %r",
                           <<Str(self.obj.type), self.name>>)
               ELSE Format("%r object has no attribute %r",
                           <<Str(self.obj.type), self.name>>)
          ELSE self.hint
    IN Raise(self.exc, hint)

\* the names that the body of class Undefined binds to fail_with_undefined_error
UndefinedFailing ==
    {"__add__", "__radd__", "__mul__", "__rmul__", "__div__", "__rdiv__",
     "__realdiv__", "__rrealdiv__", "__floordiv__", "__rfloordiv__",
     "__mod__", "__rmod__", "__pos__", "__neg__", "__call__",
     "__getattr__", "__getitem__", "__lt__", "__le__", "__gt__", "__ge__"}

\* the methods that the body of class Undefined defines itself
UndefinedOwn ==
    {"__str__", "__repr__", "__unicode__", "__len__", "__iter__", "__nonzero__"}

\* the names that the body of class StrictUndefined binds to
\* fail_with_undefined_error
StrictFailing ==
    {"__iter__", "__unicode__", "__len__", "__nonzero__", "__eq__", "__ne__"}

\* the class whose body supplies method m for an instance of cls, along the
\* method resolution order cls, Undefined, object; "fail" stands for
\* fail_with_undefined_error and "object" for no definition below object
LookupMethod(cls, m) ==
    IF cls = "StrictUndefined" /\ m \in StrictFailing THEN "fail"
    ELSE IF cls = "DebugUndefined" /\ m = "__unicode__" THEN "DebugUndefined"
    ELSE IF m \in UndefinedFailing THEN "fail"
    ELSE IF m \in UndefinedOwn THEN "Undefined"
    ELSE "object"

\* DebugUndefined.__unicode__
DebugUnicode(self) ==
    IF self.hint = None
    THEN IF self.obj = None
         THEN Return(Format("{{ %s }}", <<self.name>>))
         ELSE Return(Format("{{ no such element: %s[%r] }}",
                            <<Str(self.obj.type), self.name>>))
    ELSE Return(Format("{{ undefined value printed: %s }}", <<self.hint>>))

\* self.__unicode__(), as the class of self defines it
CallUnicode(self) ==
    LET impl == LookupMethod(self.type, "__unicode__") IN
    IF impl = "fail" THEN fail_with_undefined_error(self)
    ELSE IF impl = "DebugUndefined" THEN DebugUnicode(self)
    ELSE Return(Unicode(""))

\* what an operation does on an object whose class defines no method for it:
\* == and != compare identities, str() and repr() print the object, the
\* arithmetic operators and the other protocols raise TypeError
ObjectDefault(self, m) ==
    IF m \in {"__eq__", "__ne__"} THEN Return(Bool(m = "__ne__"))
    ELSE IF m \in {"__str__", "__repr__"} THEN Return(Str("<object>"))
    ELSE Raise("TypeError", Format("unsupported operand type(s): %s", <<Str(self.type)>>))

\* the operation whose special method is m, applied to an undefined value
Apply(self, m) ==
    LET impl == LookupMethod(self.type, m) IN
    IF impl = "fail" THEN fail_with_undefined_error(self)
    ELSE IF impl = "object" THEN ObjectDefault(self, m)
    ELSE IF m = "__unicode__" THEN CallUnicode(self)
    ELSE IF m = "__str__"
    THEN LET u == CallUnicode(self) IN
         IF u.kind = "raise" THEN u
         ELSE Return([u.value EXCEPT !.type = "str"])
    ELSE IF m = "__repr__" THEN Return(Str("Undefined"))
    ELSE IF m = "__len__" THEN Return(PyInt("0"))
    ELSE IF m = "__iter__" THEN Return(Generator(<<>>))
    ELSE Return(Bool(FALSE))

\* the operators of a template expression, by the special method each one
\* looks up on the class of its operand
Arithmetic ==
    {"__add__", "__radd__", "__sub__", "__rsub__", "__mul__", "__rmul__",
     "__div__", "__rdiv__", "__truediv__", "__rtruediv__",
     "__floordiv__", "__rfloordiv__", "__mod__", "__rmod__",
     "__pow__", "__rpow__", "__pos__", "__neg__"}

Ordering == {"__lt__", "__le__", "__gt__", "__ge__"}

Access == {"__getattr__", "__getitem__", "__call__"}

Quiet == {"__str__", "__unicode__", "__nonzero__", "__iter__", "__eq__", "__ne__"}

Operations == Arithmetic \cup Ordering \cup Access \cup Quiet

Hints == {None, Str("a hint")}

Owners == {None, Obj("dict")}

Names == {None, Str("foo"), PyInt("42")}

UndefinedValues ==
    {UndefinedInit(c, h, o, n, "UndefinedError") :
        c \in UndefinedClasses, h \in Hints, o \in Owners, n \in Names}

UndInit ==
    /\ und \in UndefinedValues
    /\ call = [op |-> "construct"] /\ ret = Return(und)
    /\ ctx = Unused /\ out = Unused /\ macro = Unused /\ loop = Unused

\* a new undefined value is constructed
Construct ==
    /\ und' \in UndefinedValues
    /\ call' = [op |-> "construct"] /\ ret' = Return(und')
    /\ UNCHANGED <<ctx, out, macro, loop>>

\* an operation is applied to the undefined value
Operate ==
    /\ \E m \in Operations :
          /\ call' = [op |-> "apply", method |-> m]
          /\ ret' = Apply(und, m)
    /\ UNCHANGED <<ctx, out, macro, loop, und>>

UndNext == Construct \/ Operate

SpecUndefined == UndInit /\ [][UndNext]_vars

\* the undefined error: the exception class the value was constructed with
RaisesUndefinedError == ret.kind = "raise" /\ ret.exc = und.exc

\* C3: construction never raises.  Under Undefined, str() gives empty text,
\* the boolean test gives False, iteration yields nothing and == and != do not
\* fail, while arithmetic, ordering, attribute access, item access and calling
\* raise the undefined error; DebugUndefined fails on the same operations;
\* under StrictUndefined every operation raises the undefined error.
C3_Policies ==
    /\ call.op = "construct" => ret.kind = "return"
    /\ (call.op = "apply" /\ und.type = "Undefined") =>
          /\ call.method \in {"__str__", "__unicode__"} =>
                ret.kind = "return" /\ ret.value.fmt = ""
          /\ call.method = "__nonzero__" => ret = Return(Bool(FALSE))
          /\ call.method = "__iter__" => ret = Return(Generator(<<>>))
    /\ (call.op = "apply" /\ und.type \in {"Undefined", "DebugUndefined"}) =>
          /\ call.method \in Quiet => ret.kind = "return"
          /\ call.method \in Arithmetic \cup Ordering \cup Access =>
                RaisesUndefinedError
    /\ (call.op = "apply" /\ und.type = "StrictUndefined") =>
          RaisesUndefinedError

\* the message the claim selects: the hint, else the element form for a key
\* that is no string, else the attribute form with an owner, else "is undefined"
ClaimedMessage(self) ==
    IF self.hint # None THEN self.hint
    ELSE IF ~IsBaseString(self.name)
    THEN Format("%r object has no element %r", <<Str(self.obj.type), self.name>>)
    ELSE IF self.obj # None
    THEN Format("%r object has no attribute %r", <<Str(self.obj.type), self.name>>)
    ELSE Format("%r is undefined", <<self.name>>)

\* C10 as claimed: the message of every undefined error is the hint when one
\* was given; otherwise the "no element" form when the key is not a string;
\* otherwise the "no attribute" form when there is an owning object;
\* otherwise "<name> is undefined".
C10_AsClaimed ==
    (call.op = "apply" /\ RaisesUndefinedError) => ret.msg = ClaimedMessage(und)

\* C10 amended: the hint when one was given; otherwise "<name> is undefined"
\* when there is no owning object, whatever the key is; otherwise the
\* "no element" form when the key is not a string; otherwise the
\* "no attribute" form.
C10_Message ==
    (call.op = "apply" /\ RaisesUndefinedError) =>
        /\ und.hint # None => ret.msg = und.hint
        /\ (und.hint = None /\ und.obj = None) =>
              ret.msg = Format("%r is undefined", <<und.name>>)
        /\ (und.hint = None /\ und.obj # None /\ ~IsBaseString(und.name)) =>
              ret.msg = Format("%r object has no element %r",
                               <<Str(und.obj.type), und.name>>)
        /\ (und.hint = None /\ und.obj # None /\ IsBaseString(und.name)) =>
              ret.msg = Format("%r object has no attribute %r",
                               <<Str(und.obj.type), und.name>>)

\* a failing operation on an undefined value without hint and without owner
\* whose name is not a string
C10_Witness ==
    /\ call.op = "apply" /\ RaisesUndefinedError
    /\ und.hint = None /\ und.obj = None /\ ~IsBaseString(und.name)
    /\ ret.msg = Format("%r is undefined", <<und.name>>)

-----------------------------------------------------------------------------
(* LoopContext, LoopContextIterator *)

Elements == {"x", "y"}

MaxLen == 3

MaxStops == 2

SeqsUpTo(S, n) == UNION {[1..k -> S] : k \in 0..n}

\* the object a loop runs over: a list (sized, and every iter() of it starts
\* at its first item) or a generator (unsized and single-pass: pos items of it
\* are consumed for good)
Sources ==
    [kind : {"list", "generator"}, items : SeqsUpTo(Elements, MaxLen), pos : {0}]

\* iter(iterable).next, bound when the iterator is made
IterOf(source, iterable) ==
    IF iterable.kind = "tuple"
    THEN [kind |-> "tupleiterator", items |-> iterable.items, pos |-> 0]
    ELSE IF source.kind = "list"
    THEN [kind |-> "listiterator", items |-> source.items, pos |-> 0]
    ELSE [kind |-> "generator", items |-> <<>>, pos |-> 0]

\* len(self._iterable): a generator has no len()
LenOf(self) ==
    IF self.iterable.kind = "tuple" THEN Return(Len(self.iterable.items))
    ELSE IF self.source.kind = "list" THEN Return(Len(self.source.items))
    ELSE Raise("TypeError", Str("object of type 'generator' has no len()"))

\* tuple(self._iterable): the items the iterable still yields, which a
\* generator loses by it
TupleOf(self) ==
    IF self.iterable.kind = "tuple"
    THEN [items |-> self.iterable.items, source |-> self.source]
    ELSE IF self.source.kind = "list"
    THEN [items |-> self.source.items, source |-> self.source]
    ELSE [items |-> SubSeq(self.source.items, self.source.pos + 1,
                           Len(self.source.items)),
          source |-> [self.source EXCEPT !.pos = Len(self.source.items)]]

\* the rebinding of self._next in LoopContext.length left out
Rebind_forgotten(self, iterable) == self.next

\* self._next = iter(self._iterable).next in LoopContext.length
Rebind(self, iterable) == IterOf(self.source, iterable)

\* LoopContext.length: the loop after the query and the value returned
length(self) ==
    IF self.length # <<>> THEN [self |-> self, value |-> self.length[1]]
    ELSE LET sized == LenOf(self) IN
         IF sized.kind = "return"
         THEN [self |-> [self EXCEPT !.length = <<sized.value>>],
               value |-> sized.value]
         ELSE LET t == TupleOf(self)
                  iterable == [kind |-> "tuple", items |-> t.items]
                  n == Len(t.items) + self.index0 + 1
              IN [self |-> [self EXCEPT !.source = t.source,
                                        !.iterable = iterable,
                                        !.next = Rebind(self, iterable),
                                        !.length = <<n>>],
                  value |-> n]

\* LoopContext.__init__(iterable, enforce_length)
LoopContextInit(source, enforce_length) ==
    LET self == [source |-> source,
                 iterable |-> [kind |-> "source", items |-> <<>>],
                 next |-> IterOf(source, [kind |-> "source", items |-> <<>>]),
                 length |-> <<>>,
                 index0 |-> -1]
    IN IF enforce_length THEN length(self).self ELSE self

\* ctx._next(): the loop after the pull and the item or StopIteration
Pull(self) ==
    IF self.next.kind = "generator"
    THEN IF self.source.pos < Len(self.source.items)
         THEN [self |-> [self EXCEPT !.source.pos = @ + 1],
               result |-> Return(self.source.items[self.source.pos + 1])]
         ELSE [self |-> self, result |-> Raise("StopIteration", None)]
    ELSE IF self.next.pos < Len(self.next.items)
         THEN [self |-> [self EXCEPT !.next.pos = @ + 1],
               result |-> Return(self.next.items[self.next.pos + 1])]
         ELSE [self |-> self, result |-> Raise("StopIteration", None)]

\* LoopContextIterator.next
next(self) == Pull([self EXCEPT !.index0 = @ + 1])

\* the properties first, index, revindex, revindex0 and last
property(self, name) ==
    IF name = "first" THEN [self |-> self, value |-> (self.index0 = 0)]
    ELSE IF name = "index" THEN [self |-> self, value |-> self.index0 + 1]
    ELSE LET l == length(self) IN
         IF name = "revindex"
         THEN [self |-> l.self, value |-> l.value - self.index0]
         ELSE IF name = "revindex0"
         THEN [self |-> l.self, value |-> l.value - (self.index0 + 1)]
         ELSE [self |-> l.self, value |-> (l.value - (self.index0 + 1) = 0)]

Properties == {"first", "index", "revindex", "revindex0", "last"}

LoopInit ==
    /\ \E source \in Sources, enforce_length \in BOOLEAN :
          loop = LoopContextInit(source, enforce_length)
    /\ out = [yielded |-> <<>>, stops |-> 0]
    /\ call = NoCall /\ ret = NoRet
    /\ ctx = Unused /\ und = Unused /\ macro = Unused

\* one step of the for loop; out keeps the items the steps returned and the
\* number of steps that signalled the end
IterNext ==
    /\ out.stops < MaxStops
    /\ LET step == next(loop) IN
       /\ loop' = step.self
       /\ ret' = step.result
       /\ out' = IF step.result.kind = "return"
                 THEN [out EXCEPT !.yielded = Append(@, step.result.value)]
                 ELSE [out EXCEPT !.stops = @ + 1]
    /\ call' = [op |-> "next"]
    /\ UNCHANGED <<ctx, und, macro>>

Length ==
    /\ LET l == length(loop) IN
       /\ loop' = l.self
       /\ ret' = Return(l.value)
    /\ call' = [op |-> "length"]
    /\ UNCHANGED <<ctx, und, macro, out>>

Property ==
    /\ \E name \in Properties :
          LET p == property(loop, name) IN
          /\ loop' = p.self
          /\ ret' = Return(p.value)
          /\ call' = [op |-> name]
    /\ UNCHANGED <<ctx, und, macro, out>>

LoopNext == IterNext \/ Length \/ Property

SpecLoop == LoopInit /\ [][LoopNext]_vars

\* the number of items the source yields in total
Total == Len(loop.source.items)

\* C7: over a single-pass, unsized source that yields n items every length
\* query returns n, wherever in the iteration it is made, so that revindex is
\* n - index0 and last is true exactly at the n-th item.
C7_Length ==
    loop.source.kind = "generator" =>
        /\ call.op = "length" => ret.value = Total
        /\ call.op = "revindex" => ret.value = Total - loop.index0
        /\ call.op = "last" => (ret.value <=> loop.index0 = Total - 1)

\* C8: index0 starts at -1, no step or query decreases it, and once the
\* length is known index0 <= length - 1.
C8_Index0 ==
    /\ loop.index0 = -1
    /\ [][/\ loop'.index0 >= loop.index0
          /\ loop'.length # <<>> => loop'.index0 <= loop'.length[1] - 1]_vars

\* C9: the steps return the items of the source in order, each once, and
\* signal the end only after the last one, whatever queries come between the
\* steps; the k-th step that returns an item leaves index0 = k - 1.
C9_Transparent ==
    /\ Len(out.yielded) <= Total
    /\ out.yielded = SubSeq(loop.source.items, 1, Len(out.yielded))
    /\ out.stops > 0 => out.yielded = loop.source.items
    /\ (call.op = "next" /\ ret.kind = "return") =>
          /\ ret.value = loop.source.items[Len(out.yielded)]
          /\ loop.index0 = Len(out.yielded) - 1

\* a generator materialized by a query between two steps, later run to its end
C9_Witness ==
    /\ loop.source.kind = "generator"
    /\ loop.iterable.kind = "tuple"
    /\ Len(loop.iterable.items) > 0
    /\ Len(loop.iterable.items) < Total
    /\ out.yielded = loop.source.items
    /\ out.stops > 0

-----------------------------------------------------------------------------
(* Macro *)

ParamLists == {<<>>, <<"x">>, <<"x", "y">>}

DefaultLists ==
    {<<>>, <<Str("10")>>, <<Str("10"), Str("20")>>,
     <<Str("10"), Str("20"), Str("30")>>}

ArgValues == {Str("5"), Str("6")}

KwNames == {"x", "y", "caller"}

KwValues == {None, Str("5"), Str("7")}

MaxArgs == 3

Dict(d) == [type |-> "dict", items |-> d]

Tuple(t) == [type |-> "tuple", items |-> t]

\* Macro.__init__(environment, func, name, arguments, defaults, catch_kwargs,
\* catch_varargs, caller)
MacroInit(environment, name, arguments, defaults, kwargs, varargs, caller) ==
    [environment |-> environment,
     argument_count |-> Len(arguments),
     name |-> name,
     arguments |-> arguments,
     defaults |-> defaults,
     catch_kwargs |-> kwargs,
     catch_varargs |-> varargs,
     caller |-> caller]

\* the default of parameter idx read from the head of self.defaults
DefaultOf_head(self, idx) == GetItem(self.defaults, idx)

\* self.defaults[idx - self._argument_count]
DefaultOf(self, idx) == GetItem(self.defaults, idx - self.argument_count)

\* one round of the loop over self.arguments: the value of the parameter at
\* idx (0-based) and the keyword arguments left after it
BindValue(self, args, kwargs, idx) ==
    LET name == self.arguments[idx + 1]
        positional == GetItem(args, idx)
        keyword == DictGetItem(kwargs, name)
        default == DefaultOf(self, idx)
    IN IF positional.kind = "return"
       THEN [value |-> positional.value, kwargs |-> kwargs]
       ELSE IF keyword.kind = "return"
       THEN [value |-> keyword.value, kwargs |-> DictDel(kwargs, name)]
       ELSE IF default.kind = "return"
       THEN [value |-> default.value, kwargs |-> kwargs]
       ELSE [value |-> EnvUndefined(self.environment,
                          Format("parameter %r was not provided", <<Str(name)>>),
                          None, Str(name)),
             kwargs |-> kwargs]

RECURSIVE BindFrom(_, _, _, _)
\* the loop over self.arguments from idx on: the values bound and the keyword
\* arguments left
BindFrom(self, args, kwargs, idx) ==
    IF idx >= Len(self.arguments)
    THEN [arguments |-> <<>>, kwargs |-> kwargs]
    ELSE LET b == BindValue(self, args, kwargs, idx)
             rest == BindFrom(self, args, b.kwargs, idx + 1)
         IN [arguments |-> <<b.value>> \o rest.arguments, kwargs |-> rest.kwargs]

\* the caller appended to the arguments: kwargs.pop('caller', None), and the
\* undefined value in the place of None
CallerOf(self, kwargs) ==
    LET caller == IF "caller" \in DOMAIN kwargs THEN kwargs["caller"] ELSE None IN
    IF caller = None
    THEN EnvUndefined(self.environment, Str("No caller defined"), None, Str("caller"))
    ELSE caller

\* the extras with the positional tail ahead of the keyword arguments
Extras_varargs_first(self, args, kwargs) ==
    (IF self.caller THEN <<CallerOf(self, kwargs)>> ELSE <<>>)
    \o (IF self.catch_varargs
        THEN <<Tuple(SubSeq(args, self.argument_count + 1, Len(args)))>>
        ELSE <<>>)
    \o (IF self.catch_kwargs
        THEN <<Dict(IF self.caller THEN DictDel(kwargs, "caller") ELSE kwargs)>>
        ELSE <<>>)

\* the arguments appended after the declared parameters: the caller, the
\* keyword arguments left, the positional arguments left
Extras(self, args, kwargs) ==
    (IF self.caller THEN <<CallerOf(self, kwargs)>> ELSE <<>>)
    \o (IF self.catch_kwargs
        THEN <<Dict(IF self.caller THEN DictDel(kwargs, "caller") ELSE kwargs)>>
        ELSE <<>>)
    \o (IF self.catch_varargs
        THEN <<Tuple(SubSeq(args, self.argument_count + 1, Len(args)))>>
        ELSE <<>>)

\* the test of the positional arguments off by one
TooManyArgs_off_by_one(self, args) == Len(args) >= self.argument_count

\* len(args) > self._argument_count
TooManyArgs(self, args) == Len(args) > self.argument_count

\* Macro.__call__(*args, **kwargs); first is the name iter(kwargs).next()
\* gives when a keyword argument is left
MacroCall(self, args, kwargs, first) ==
    LET bound == BindFrom(self, args, kwargs, 0)
        left == IF self.caller THEN DictDel(bound.kwargs, "caller") ELSE bound.kwargs
        arguments == bound.arguments \o Extras(self, args, bound.kwargs)
    IN IF ~self.catch_kwargs /\ DOMAIN left # {}
       THEN Raise("TypeError", Format("macro %r takes no keyword argument %r",
                                      <<self.name, Str(first)>>))
       ELSE IF ~self.catch_varargs /\ TooManyArgs(self, args)
       THEN Raise("TypeError", Format("macro %r takes not more than %d argument(s)",
                                      <<self.name, Str("len(self.arguments)")>>))
       ELSE Return([type |-> "result", arguments |-> arguments])

\* the keyword arguments that Macro.__call__ leaves unused
LeftOver(self, args, kwargs) ==
    LET bound == BindFrom(self, args, kwargs, 0) IN
    DOMAIN (IF self.caller THEN DictDel(bound.kwargs, "caller") ELSE bound.kwargs)

Macros ==
    {MacroInit([undefined |-> "Undefined", autoescape |-> FALSE], Str("m"),
               a, d, k, v, c) :
        a \in ParamLists, d \in DefaultLists, k \in BOOLEAN, v \in BOOLEAN,
        c \in BOOLEAN}

MacroSpecInit ==
    /\ macro \in Macros
    /\ call = NoCall /\ ret = NoRet
    /\ ctx = Unused /\ out = Unused /\ und = Unused /\ loop = Unused

\* the macro is called
Call ==
    /\ call = NoCall
    /\ \E args \in SeqsUpTo(ArgValues, MaxArgs), kwargs \in Dicts(KwNames, KwValues),
          first \in KwNames :
          /\ IF LeftOver(macro, args, kwargs) = {}
             THEN first = "caller"
             ELSE first \in LeftOver(macro, args, kwargs)
          /\ call' = [op |-> "call", args |-> args, kwargs |-> kwargs]
          /\ ret' = MacroCall(macro, args, kwargs, first)
    /\ UNCHANGED <<ctx, out, und, loop, macro>>

MacroNext == Call

SpecMacro == MacroSpecInit /\ [][MacroNext]_vars

\* the number of declared parameters
Count == Len(macro.arguments)

\* the body of the macro was invoked by the last call
Invoked == call.op = "call" /\ ret.kind = "return" /\ ret.value.type = "result"

\* the parameters that the call binds from the keyword arguments
KeywordBound ==
    {macro.arguments[i] : i \in (Len(call.args) + 1)..Count} \cap DOMAIN call.kwargs

\* the keyword arguments left after parameter binding and caller extraction
Remaining ==
    DOMAIN call.kwargs
        \ (KeywordBound \cup (IF macro.caller THEN {"caller"} ELSE {}))

\* C4: the parameter at position i is the i-th positional argument when there
\* is one; otherwise the keyword argument of its name, which leaves the
\* keyword arguments; otherwise the default at its offset from the tail (only
\* the last len(defaults) parameters have one); otherwise an undefined value
\* that names the parameter.
C4_Binding ==
    Invoked =>
        \A i \in 1..Count :
            LET name == macro.arguments[i]
                value == ret.value.arguments[i]
                tail == Count - i
            IN IF i <= Len(call.args) THEN value = call.args[i]
               ELSE IF name \in DOMAIN call.kwargs
               THEN /\ value = call.kwargs[name]
                    /\ macro.catch_kwargs =>
                          name \notin DOMAIN ret.value.arguments[
                              Count + (IF macro.caller THEN 1 ELSE 0) + 1].items
               ELSE IF tail < Len(macro.defaults)
               THEN value = macro.defaults[Len(macro.defaults) - tail]
               ELSE IsUndefined(value) /\ value.name = Str(name)

\* parameters (x, y=10) called with x=5 as a keyword: x=5, y=10
C4_Witness ==
    /\ Invoked
    /\ macro.arguments = <<"x", "y">> /\ macro.defaults = <<Str("10")>>
    /\ call.args = <<>> /\ DOMAIN call.kwargs = {"x"} /\ call.kwargs["x"] = Str("5")
    /\ SubSeq(ret.value.arguments, 1, 2) = <<Str("5"), Str("10")>>

\* the shape of the argument list: the parameters, then the caller, then the
\* keyword arguments left, then the positional arguments left
ExtrasInOrder ==
    LET a == ret.value.arguments
        c == IF macro.caller THEN 1 ELSE 0
        k == IF macro.catch_kwargs THEN 1 ELSE 0
        v == IF macro.catch_varargs THEN 1 ELSE 0
    IN /\ Len(a) = Count + c + k + v
       /\ macro.catch_kwargs =>
             a[Count + c + 1] = Dict([n \in Remaining |-> call.kwargs[n]])
       /\ macro.catch_varargs =>
             a[Count + c + k + 1] = Tuple(SubSeq(call.args, Count + 1, Len(call.args)))

\* C5 as claimed: the body receives one value per parameter, then (with
\* has_caller) the 'caller' keyword argument, or an undefined value when it is
\* absent, then (with accepts_extra_kwargs) the keyword arguments left, then
\* (with accepts_extra_args) the positional arguments beyond the parameters.
C5_AsClaimed ==
    Invoked =>
        /\ ExtrasInOrder
        /\ macro.caller =>
              IF "caller" \in DOMAIN call.kwargs
              THEN ret.value.arguments[Count + 1] = call.kwargs["caller"]
              ELSE IsUndefined(ret.value.arguments[Count + 1])

\* C5 amended: as claimed, but the caller value is the 'caller' keyword
\* argument only when that is present and not None; when it is absent or None
\* the body receives an undefined value named caller.
C5_Arguments ==
    Invoked =>
        /\ ExtrasInOrder
        /\ macro.caller =>
              IF "caller" \in DOMAIN call.kwargs /\ call.kwargs["caller"] # None
              THEN ret.value.arguments[Count + 1] = call.kwargs["caller"]
              ELSE /\ IsUndefined(ret.value.arguments[Count + 1])
                   /\ ret.value.arguments[Count + 1].name = Str("caller")

\* a call with caller=None, a keyword argument left and a positional argument
\* left, to a macro with all three extras
C5_Witness ==
    /\ Invoked
    /\ macro.caller /\ macro.catch_kwargs /\ macro.catch_varargs
    /\ Count = 1 /\ Len(call.args) = 2
    /\ DOMAIN call.kwargs = {"caller", "y"} /\ call.kwargs["caller"] = None
    /\ Len(ret.value.arguments) = 4
    /\ IsUndefined(ret.value.arguments[2])
    /\ ret.value.arguments[3] = Dict([n \in {"y"} |-> call.kwargs[n]])
    /\ ret.value.arguments[4] = Tuple(<<call.args[2]>>)

\* C6: the call raises the binding error, and the body is not invoked, exactly
\* when accepts_extra_kwargs is off and a keyword argument is left over, or
\* accepts_extra_args is off and more positional arguments were passed than
\* there are parameters; otherwise the body is invoked.
C6_BindingError ==
    call.op = "call" =>
        IF \/ ~macro.catch_kwargs /\ Remaining # {}
           \/ ~macro.catch_varargs /\ Len(call.args) > Count
        THEN ret.kind = "raise" /\ ret.exc = "TypeError"
        ELSE Invoked

\* three positional arguments to a macro of two parameters without varargs
C6_Witness ==
    /\ call.op = "call"
    /\ Count = 2 /\ ~macro.catch_varargs
    /\ Len(call.args) = 3 /\ DOMAIN call.kwargs = {}
    /\ ret.kind = "raise" /\ ret.exc = "TypeError"

-----------------------------------------------------------------------------
(* The four components side by side *)

Init == CtxInit \/ UndInit \/ LoopInit \/ MacroSpecInit

Next ==
    \/ ctx # Unused /\ CtxNext
    \/ und # Unused /\ UndNext
    \/ loop # Unused /\ LoopNext
    \/ macro # Unused /\ MacroNext

Spec == Init /\ [][Next]_vars

====
